---- MODULE Spec2Model ----
(***************************************************************************)
(* Model of the tiled / per-polygon parallel processing engine of          *)
(* green_vegetation_extraction:                                            *)
(*   src/src/multithread_processing.py   (runs, tasks, aggregation)        *)
(*   src/src/geospatial_processing.py    (get_orthophoto_info, shapefile)  *)
(*   src/src/geometry_processing/object_extraction.py (extract_objects)    *)
(*   src/src/data_processing/orthophoto_loader.py (load_orthophoto)        *)
(*                                                                         *)
(* Conventions.  A pixel is <<row, col>>.  A window is a record            *)
(* [col_off, row_off, width, height] like rasterio's Window.  The raster   *)
(* is an 8-bit RGB image whose pixels are either (50,200,50) ("green") or  *)
(* (0,0,0); it is given by its height, its width and the set of its green  *)
(* pixels.  Calls into numpy / scipy / skimage / rasterio / dask are       *)
(* environment steps: they either deliver their documented result or       *)
(* raise, and the choice is made by the environment.                       *)
(***************************************************************************)
EXTENDS Integers, Sequences, FiniteSets, TLC

VARIABLES
    mode,         \* "full": process_orthophoto_full, "polygons": process_orthophoto_parallel,
                  \* "call": a single call of a function (fn)
    rasterH,      \* src.height
    rasterW,      \* src.width
    rasterState,  \* "ok" | "corrupt" (path exists, rasterio cannot open it) | "missing"
    green,        \* the raster's green pixels
    gdf,          \* gdf.geometry of the shapefile: polygons and None entries
    n_workers,    \* size of the Dask worker pool (run configuration)
    min_area,     \* run configuration
    max_area,     \* run configuration
    pc,           \* position of the run function
    tasks,        \* the delayed process_orthophoto_chunk calls, in creation order
    status,       \* status[i] of task i: Pending, Running, Completed, Failed
    results,      \* results[i]: what dask.compute holds for task i (NoResult before)
    taskEnv,      \* taskEnv[i]: what the environment did to task i (history)
    outOfOrder,   \* some task completed before a task created earlier (history)
    execCount,    \* execCount[i]: how often the body of task i ran (history)
    summary,      \* the dictionary the run function returns (NoSummary before)
    fn,           \* mode "call": the function called
    fnArgs,       \* mode "call": its arguments
    fnRet         \* mode "call": what it returned or raised (NoResult before)

vars == <<mode, rasterH, rasterW, rasterState, green, gdf, n_workers, min_area,
          max_area, pc, tasks, status, results, taskEnv, outOfOrder, execCount,
          summary, fn, fnArgs, fnRet>>

runVars == <<mode, rasterH, rasterW, rasterState, green, gdf, n_workers,
             min_area, max_area>>

callVars == <<fn, fnArgs, fnRet>>

----------------------------------------------------------------------------
\* Bounds of the model.

\* Largest raster height and width.
MaxDim == 2
\* Largest number of entries of gdf.geometry.
MaxGeoms == 2
\* Largest raster side tried in single calls of get_tiles_windows.
MaxSide == 4
\* Largest tile edge tried in single calls of get_tiles_windows.
MaxTile == 4
\* Largest mask edge tried in single calls of extract_objects.
MaxMask == 2
\* Largest block edge tried in single calls of the classification functions.
MaxBlock == 2
MaxRadius == 2
MaxRegions == 2
MaxArea == 3
MaxPerimeter == 4

----------------------------------------------------------------------------
\* Values of the program.

\* tile_size=4096 passed by process_orthophoto_full.
TILE_SIZE == 4096
\* connectivity default of extract_objects / extract_vegetation_objects.
CONNECTIVITY == 8

\* Python's None, and the values of variables not yet assigned.
None == [none |-> TRUE]
NoResult == [unset |-> "result"]
NoSummary == [unset |-> "summary"]

Min(a, b) == IF a <= b THEN a ELSE b

\* The names bound at module level in multithread_processing.py by its
\* import statements and definitions.  "from rasterio.windows import Window"
\* binds Window only; "import rasterio" at line 104 and the "from_bounds"
\* import at line 117 are local to process_orthophoto_chunk.
ModuleGlobals ==
    {"dask", "delayed", "Client", "np", "os", "List", "Dict", "Tuple", "sys",
     "load_orthophoto", "preprocess_orthophoto", "apply_gaussian_filter",
     "normalize_rgb_channels", "threshold_classification",
     "extract_vegetation_objects", "load_polygon_shapefile",
     "get_orthophoto_info", "Window", "setup_dask_client", "get_tiles_windows",
     "process_orthophoto_chunk", "process_orthophoto_parallel",
     "process_orthophoto_full"}

\* Outcome of a call: a returned value or a raised exception.
Return(v) == [ok |-> TRUE, value |-> v]
Raise(kind, msg) == [ok |-> FALSE, exc |-> kind, msg |-> msg]

----------------------------------------------------------------------------
\* Tile generation (multithread_processing.py, get_tiles_windows).

\* Number of elements of Python's range(start, stop, step), step # 0.
RangeLen(start, stop, step) ==
    IF step > 0
    THEN IF stop > start THEN (stop - start + step - 1) \div step ELSE 0
    ELSE IF stop < start THEN (start - stop + (0 - step) - 1) \div (0 - step) ELSE 0

\* Python's range(start, stop, step) as a sequence, step # 0.
PyRange(start, stop, step) ==
    [k \in 1..RangeLen(start, stop, step) |-> start + (k - 1) * step]

\* Window(col_off, row_off, width, height).
Window(col_off, row_off, width, height) ==
    [col_off |-> col_off, row_off |-> row_off, width |-> width, height |-> height]

\* Lines 75-80: the nested loops over range(0, h, tile_size) and
\* range(0, w, tile_size), appending row by row.
TileLoop(h, w, tile_size) ==
    LET rows == PyRange(0, h, tile_size)
        cols == PyRange(0, w, tile_size)
        n == Len(rows) * Len(cols)
    IN [k \in 1..n |->
          LET i == rows[((k - 1) \div Len(cols)) + 1]
              j == cols[((k - 1) % Len(cols)) + 1]
          IN Window(j, i, Min(tile_size, w - j), Min(tile_size, h - i))]

\* get_tiles_windows(orthophoto_path, tile_size) on a raster in state rstate
\* of h rows and w columns.  Line 73 evaluates the global name rasterio.
get_tiles_windows(rstate, h, w, tile_size) ==
    IF "rasterio" \notin ModuleGlobals
    THEN Raise("NameError", "name 'rasterio' is not defined")
    ELSE IF rstate # "ok"
    THEN Raise("RasterioIOError", "cannot open raster")
    ELSE IF tile_size = 0
    THEN Raise("ValueError", "range() arg 3 must not be zero")
    ELSE Return(TileLoop(h, w, tile_size))

\* The pixels of a window, in raster coordinates.
WindowPixels(win) ==
    {<<r, c>> : r \in win.row_off..(win.row_off + win.height - 1),
                c \in win.col_off..(win.col_off + win.width - 1)}

RasterPixels(h, w) == {<<r, c>> : r \in 0..(h - 1), c \in 0..(w - 1)}

----------------------------------------------------------------------------
\* Connected components (object_extraction.py, extract_objects).

\* Neighbourhood named by the connectivity argument (4 or 8).
Adjacent(p, q, connectivity) ==
    LET dr == IF p[1] >= q[1] THEN p[1] - q[1] ELSE q[1] - p[1]
        dc == IF p[2] >= q[2] THEN p[2] - q[2] ELSE q[2] - p[2]
    IN /\ p # q
       /\ IF connectivity = 4 THEN dr + dc = 1 ELSE dr <= 1 /\ dc <= 1

RECURSIVE Grow(_, _, _)
\* The connected component of mask that contains comp.
Grow(comp, mask, connectivity) ==
    LET more == comp \cup {q \in mask : \E p \in comp : Adjacent(p, q, connectivity)}
    IN IF more = comp THEN comp ELSE Grow(more, mask, connectivity)

\* Raster-scan order of pixels.
ScanBefore(p, q) == p[1] < q[1] \/ (p[1] = q[1] /\ p[2] <= q[2])

FirstPixel(S) == CHOOSE p \in S : \A q \in S : ScanBefore(p, q)

RECURSIVE label(_, _)
\* skimage.measure.label: the components of the mask, numbered in
\* raster-scan order of their first pixel.
label(mask, connectivity) ==
    IF mask = {} THEN <<>>
    ELSE LET c == Grow({FirstPixel(mask)}, mask, connectivity)
         IN <<c>> \o label(mask \ c, connectivity)

RECURSIVE SumOf(_, _)
\* Sum of coordinate k over the pixels of S.
SumOf(S, k) ==
    IF S = {} THEN 0
    ELSE LET p == CHOOSE x \in S : TRUE IN p[k] + SumOf(S \ {p}, k)

MinOf(S, k) == CHOOSE v \in {p[k] : p \in S} : \A p \in S : v <= p[k]
MaxOf(S, k) == CHOOSE v \in {p[k] : p \in S} : \A p \in S : v >= p[k]

\* skimage.measure.regionprops of one component: area, bbox
\* (min_row, min_col, max_row, max_col) with exclusive maxima, and centroid
\* (mean row, mean col), each mean kept as the fraction <<sum, area>>.
regionprops(comp) ==
    [area |-> Cardinality(comp),
     bbox |-> <<MinOf(comp, 1), MinOf(comp, 2), MaxOf(comp, 1) + 1, MaxOf(comp, 2) + 1>>,
     centroid |-> << <<SumOf(comp, 1), Cardinality(comp)>>,
                     <<SumOf(comp, 2), Cardinality(comp)>> >>]

Regions(mask, connectivity) ==
    LET comps == label(mask, connectivity)
    IN [k \in 1..Len(comps) |-> regionprops(comps[k])]

\* A plausible slip: strict comparisons in the area filter.
extract_objects_strict(binary_mask, minA, maxA, connectivity) ==
    LET InRange(r) == minA < r.area /\ r.area < maxA
    IN SelectSeq(Regions(binary_mask, connectivity), InRange)

\* extract_objects, lines 34-45.
extract_objects(binary_mask, minA, maxA, connectivity) ==
    LET InRange(r) == minA <= r.area /\ r.area <= maxA
    IN SelectSeq(Regions(binary_mask, connectivity), InRange)

\* np.pi as a fraction; every comparison made below has the same outcome
\* with the floating-point value.
PI_NUM == 355
PI_DEN == 113

\* Line 61-62: 4 * np.pi * region.area / region.perimeter ** 2 >= min_circularity,
\* with min_circularity in thousandths.
CircularityAtLeast(region, min_circularity) ==
    4 * PI_NUM * region.area * 1000
        >= min_circularity * region.perimeter * region.perimeter * PI_DEN

RECURSIVE ShapeLoop(_, _, _)
\* A plausible slip: the circularity is computed without the perimeter guard,
\* and the division by a zero perimeter raises.
filter_by_shape_unguarded(regions, min_circularity) ==
    IF \E k \in 1..Len(regions) : regions[k].perimeter = 0
    THEN Raise("ZeroDivisionError", "division by zero")
    ELSE Return(ShapeLoop(regions, min_circularity, <<>>))

\* filter_by_shape, lines 47-69.
filter_by_shape(regions, min_circularity) ==
    Return(ShapeLoop(regions, min_circularity, <<>>))

\* The loop of lines 58-67 over the regions still to visit.
ShapeLoop(regions, min_circularity, filtered_regions) ==
    IF regions = <<>> THEN filtered_regions
    ELSE LET region == Head(regions)
         IN ShapeLoop(Tail(regions), min_circularity,
                IF region.perimeter > 0
                THEN IF CircularityAtLeast(region, min_circularity)
                     THEN Append(filtered_regions, region)
                     ELSE filtered_regions
                ELSE Append(filtered_regions, region))

----------------------------------------------------------------------------
\* One task (multithread_processing.py, process_orthophoto_chunk).

\* An error message is a sequence of text parts; str(e) of a wrapped
\* exception keeps the text of its cause.
CodecText == "codec can't decode"
Mentions(msg, text) == \E k \in 1..Len(msg) : msg[k] = text

\* The steps of the task body in which a library or I/O call can raise.
Stages == {"window", "load", "filter", "extract"}

\* A polygon is given by polygon_geom.bounds = (minx, miny, maxx, maxy), taken
\* on the pixel grid of a raster whose transform maps x to columns and y to
\* rows.  Lines 119-122: from_bounds(...).round_shape().round_offsets().
PolygonWindow(polygon_geom) ==
    Window(polygon_geom.minx, polygon_geom.miny,
           polygon_geom.maxx - polygon_geom.minx,
           polygon_geom.maxy - polygon_geom.miny)

InsideRaster(win, h, w) ==
    /\ win.row_off >= 0
    /\ win.col_off >= 0
    /\ win.height > 0
    /\ win.width > 0
    /\ win.row_off + win.height <= h
    /\ win.col_off + win.width <= w

Max(a, b) == IF a >= b THEN a ELSE b

\* rasterio's Window.crop(height, width): the part of a window that lies on
\* an h x w raster.
Crop(win, h, w) ==
    LET row_start == Min(Max(win.row_off, 0), h)
        col_start == Min(Max(win.col_off, 0), w)
        row_stop == Max(0, Min(win.row_off + win.height, h))
        col_stop == Max(0, Min(win.col_off + win.width, w))
    IN Window(col_start, row_start, col_stop - col_start, row_stop - row_start)

\* The block that src.read delivers for a window on the raster, transposed
\* to (height, width, channels) at line 34.
ReadWindow(greenSet, read) ==
    [height |-> read.height, width |-> read.width,
     green |-> {<<p[1] - read.row_off, p[2] - read.col_off>> :
                p \in greenSet \cap WindowPixels(read)}]

\* load_orthophoto(file_path, window): the pixel block of the window as
\* [height, width, green], green in block coordinates.  src.read(window=...)
\* is not boundless: given a window that is not inside the raster the
\* library either refuses the read (GDAL's "Access window out of range") or
\* reads the part of the window that lies on the raster (env.clip); the
\* code does not determine which.  Every error leaves as
\* Exception("... : " + str(e)), line 75.
load_orthophoto(rstate, h, w, greenSet, window, env) ==
    IF rstate # "ok"
    THEN Raise("Exception", <<"load_orthophoto", "cannot open raster">>)
    ELSE IF window = None
    THEN Return([height |-> h, width |-> w, green |-> greenSet])
    ELSE IF ~InsideRaster(window, h, w) /\ ~env.clip
    THEN Raise("Exception", <<"load_orthophoto", "access window out of range">>)
    ELSE IF env.fail = "load"
    THEN Raise("Exception", <<"load_orthophoto", env.msg>>)
    ELSE Return(CHOOSE block \in {ReadWindow(greenSet, read) : read \in {Crop(window, h, w)}} : TRUE)

BlockPixels(block) == RasterPixels(block.height, block.width)

\* The two colours of the rasters of the model, as (R, G, B).
GreenRGB == <<50, 200, 50>>
BlackRGB == <<0, 0, 0>>

\* A plausible slip: the ratios compared without the 0.001 that keeps the
\* denominators from being zero.
VegetationPixel_noeps(rgb, t_ratio, t_index) ==
    LET R == rgb[1]
        G == rgb[2]
        B == rgb[3]
    IN /\ G * 1000 >= t_ratio * R
       /\ G * 1000 >= t_ratio * B
       /\ (G - R) * 1000 >= t_index * (G + R)

\* spectral_indices.py lines 24-64 and threshold_classification.py lines
\* 39-41 for one pixel, thresholds in thousandths:
\*   G / (R + 0.001) >= t_ratio, G / (B + 0.001) >= t_ratio,
\*   (G - R) / (G + R + 0.001) >= t_index, each multiplied out.
VegetationPixel(rgb, t_ratio, t_index) ==
    LET R == rgb[1]
        G == rgb[2]
        B == rgb[3]
    IN /\ G * 1000 * 1000 >= t_ratio * (R * 1000 + 1)
       /\ G * 1000 * 1000 >= t_ratio * (B * 1000 + 1)
       /\ (G - R) * 1000 * 1000 >= t_index * ((G + R) * 1000 + 1)

\* green_ratio_threshold=1.0 and green_index_threshold=0.2, in thousandths.
GREEN_RATIO_THRESHOLD == 1000
GREEN_INDEX_THRESHOLD == 200

\* threshold_classification(rgb_data) with its default thresholds: the
\* pixels of value 255.
threshold_classification(block) ==
    {p \in BlockPixels(block) :
        VegetationPixel(IF p \in block.green THEN GreenRGB ELSE BlackRGB,
                        GREEN_RATIO_THRESHOLD, GREEN_INDEX_THRESHOLD)}

\* apply_gaussian_filter(data, sigma=1.0) followed by normalize_rgb_channels
\* (the identity on 8-bit data).  A constant block is left as it is.  In a
\* block of both colours the smoothing mixes green into black pixels; for the
\* classification either the black pixels stay black or (spread) they take
\* the ratios of green pixels.
apply_gaussian_filter(block, spread) ==
    IF block.green = {} \/ block.green = BlockPixels(block) \/ ~spread
    THEN block
    ELSE [block EXCEPT !.green = BlockPixels(block)]

\* skimage.morphology.disk(radius) as a test on a row and a column difference.
InDisk(dr, dc, radius) == dr * dr + dc * dc <= radius * radius

\* skimage binary_erosion (pixels beyond the border count as set).
binary_erosion(mask, shape, radius) ==
    {p \in BlockPixels(shape) :
        \A q \in BlockPixels(shape) :
            InDisk(p[1] - q[1], p[2] - q[2], radius) => q \in mask}

\* skimage binary_dilation (pixels beyond the border count as clear).
binary_dilation(mask, shape, radius) ==
    {p \in BlockPixels(shape) :
        \E q \in mask : InDisk(p[1] - q[1], p[2] - q[2], radius)}

binary_opening(mask, shape, radius) ==
    binary_dilation(binary_erosion(mask, shape, radius), shape, radius)

binary_closing(mask, shape, radius) ==
    binary_erosion(binary_dilation(mask, shape, radius), shape, radius)

\* A plausible slip: the closing applied before the opening.
morphological_operations_closing_first(binary_mask, shape, opening_size, closing_size) ==
    LET closed_mask == IF closing_size > 0
                       THEN binary_closing(binary_mask, shape, closing_size)
                       ELSE binary_mask
        opened_mask == IF opening_size > 0
                       THEN binary_opening(closed_mask, shape, opening_size)
                       ELSE closed_mask
    IN opened_mask

\* morphological_operations, object_extraction.py lines 89-102.
morphological_operations(binary_mask, shape, opening_size, closing_size) ==
    LET opened_mask == IF opening_size > 0
                       THEN binary_opening(binary_mask, shape, opening_size)
                       ELSE binary_mask
        closed_mask == IF closing_size > 0
                       THEN binary_closing(opened_mask, shape, closing_size)
                       ELSE opened_mask
    IN closed_mask

\* opening_size=3, closing_size=3.
OPENING_SIZE == 3
CLOSING_SIZE == 3

\* extract_vegetation_objects, object_extraction.py lines 120-129.
extract_vegetation_objects(block, minA, maxA, connectivity) ==
    LET binary_mask == threshold_classification(block)
        processed_mask == morphological_operations(binary_mask, block,
                                                   OPENING_SIZE, CLOSING_SIZE)
    IN extract_objects(processed_mask, minA, maxA, connectivity)

\* Lines 144-150 with both offsets exchanged.
to_global_swapped(reg, offset_x, offset_y) ==
    [area |-> reg.area,
     bbox |-> <<reg.bbox[1] + offset_x, reg.bbox[2] + offset_y,
                reg.bbox[3] + offset_x, reg.bbox[4] + offset_y>>,
     centroid |-> << <<reg.centroid[1][1] + offset_x * reg.centroid[1][2], reg.centroid[1][2]>>,
                     <<reg.centroid[2][1] + offset_y * reg.centroid[2][2], reg.centroid[2][2]>> >>]

\* Lines 144-150: the serialisable dictionary of one region, the window
\* offset added to bbox and centroid.
to_global(reg, offset_x, offset_y) ==
    [area |-> reg.area,
     bbox |-> <<reg.bbox[1] + offset_y, reg.bbox[2] + offset_x,
                reg.bbox[3] + offset_y, reg.bbox[4] + offset_x>>,
     centroid |-> << <<reg.centroid[1][1] + offset_y * reg.centroid[1][2], reg.centroid[1][2]>>,
                     <<reg.centroid[2][1] + offset_x * reg.centroid[2][2], reg.centroid[2][2]>> >>]

\* A plausible slip: a failed result that has no error message and still
\* counts an object.
FailureResult_counted(rstate, polygon_geom, error_msg) ==
    [polygon |-> polygon_geom, count |-> 1, objects |-> <<>>, success |-> FALSE,
     error |-> None]

\* Lines 162-189: the except branch.
FailureResult(rstate, polygon_geom, error_msg) ==
    [polygon |-> polygon_geom, count |-> 0, objects |-> <<>>, success |-> FALSE,
     error |-> IF Mentions(error_msg, CodecText) /\ rstate # "missing"
               THEN [text |-> <<"encoding problem in path">> \o error_msg]
               ELSE [text |-> error_msg]]

\* Lines 116-122: the window of the task, or what raised on the way.
TaskWindow(rstate, polygon_geom, window, env) ==
    IF window = None /\ polygon_geom # None
    THEN IF rstate # "ok" THEN Raise("RasterioIOError", <<"cannot open raster">>)
         ELSE IF env.fail = "window" THEN Raise("Exception", <<env.msg>>)
         ELSE Return(PolygonWindow(polygon_geom))
    ELSE Return(window)

\* Lines 124-160: the try body from the window on.
ChunkBody(rstate, h, w, greenSet, polygon_geom, win, minA, maxA, env) ==
    LET loaded == load_orthophoto(rstate, h, w, greenSet, win, env)
    IN IF ~loaded.ok THEN loaded
       ELSE IF env.fail = "filter" THEN Raise("Exception", <<env.msg>>)
       ELSE IF env.fail = "extract" THEN Raise("Exception", <<env.msg>>)
       ELSE LET processed_orthophoto == apply_gaussian_filter(loaded.value, env.spread)
                vegetation_objects ==
                    extract_vegetation_objects(processed_orthophoto, minA, maxA, CONNECTIVITY)
                offset_x == IF win # None THEN win.col_off ELSE 0
                offset_y == IF win # None THEN win.row_off ELSE 0
                serializable_objects ==
                    [k \in 1..Len(vegetation_objects) |->
                        to_global(vegetation_objects[k], offset_x, offset_y)]
            IN Return([polygon |-> polygon_geom,
                       count |-> Len(serializable_objects),
                       objects |-> serializable_objects,
                       success |-> TRUE,
                       error |-> None])

\* A plausible slip: the window of a polygon computed before the try.
process_orthophoto_chunk_unguarded(rstate, h, w, greenSet, polygon_geom, window, minA, maxA, env) ==
    LET tw == TaskWindow(rstate, polygon_geom, window, env)
    IN IF ~tw.ok THEN tw
       ELSE LET body == ChunkBody(rstate, h, w, greenSet, polygon_geom, tw.value, minA, maxA, env)
            IN IF body.ok THEN body
               ELSE Return(FailureResult(rstate, polygon_geom, body.msg))

RECURSIVE ObjectsSoFar(_)
\* The objects of the results in res that are there already.
ObjectsSoFar(res) ==
    IF res = <<>> THEN <<>>
    ELSE (IF Head(res) = NoResult THEN <<>> ELSE Head(res).objects) \o ObjectsSoFar(Tail(res))

\* A plausible slip: serializable_objects kept outside the function, so that
\* a task's list starts with the objects of the tasks before it.
process_orthophoto_chunk_shared(rstate, h, w, greenSet, polygon_geom, window, minA, maxA, env) ==
    LET tw == TaskWindow(rstate, polygon_geom, window, env)
        body == IF tw.ok
                THEN ChunkBody(rstate, h, w, greenSet, polygon_geom, tw.value, minA, maxA, env)
                ELSE tw
    IN IF body.ok
       THEN LET objs == ObjectsSoFar(results) \o body.value.objects
            IN Return([body.value EXCEPT !.objects = objs, !.count = Len(objs)])
       ELSE Return(FailureResult(rstate, polygon_geom, body.msg))

\* process_orthophoto_chunk, lines 102-189: what the task returns (or, if
\* anything could leave it, raises).
process_orthophoto_chunk(rstate, h, w, greenSet, polygon_geom, window, minA, maxA, env) ==
    LET tw == TaskWindow(rstate, polygon_geom, window, env)
        body == IF tw.ok
                THEN ChunkBody(rstate, h, w, greenSet, polygon_geom, tw.value, minA, maxA, env)
                ELSE tw
    IN IF body.ok THEN body
       ELSE Return(FailureResult(rstate, polygon_geom, body.msg))

----------------------------------------------------------------------------
\* The runs (process_orthophoto_parallel, process_orthophoto_full).

\* get_orthophoto_info, geospatial_processing.py lines 157-188: a raster that
\* exists but cannot be opened is reported with 'unknown' entries.
get_orthophoto_info(rstate, h, w) ==
    IF rstate = "ok" THEN Return([width |-> w, height |-> h, known |-> TRUE])
    ELSE IF rstate = "corrupt" THEN Return([known |-> FALSE])
    ELSE Raise("Exception", <<"get_orthophoto_info", "cannot open raster">>)

RECURSIVE SumCounts(_)
\* sum(result['count'] for result in results if result['success'])
SumCounts(res) ==
    IF res = <<>> THEN 0
    ELSE (IF Head(res).success THEN Head(res).count ELSE 0) + SumCounts(Tail(res))

\* A plausible slip: the run succeeds only if every task did.
ParallelSummary_strict(polygons, res) ==
    [total_polygons |-> Len(polygons),
     total_objects |-> SumCounts(res),
     results |-> res,
     success |-> \A k \in 1..Len(res) : res[k].success]

\* Lines 242-251.
ParallelSummary(polygons, res) ==
    [total_polygons |-> Len(polygons),
     total_objects |-> SumCounts(res),
     results |-> res,
     success |-> TRUE]

\* Lines 253-261.
ParallelFailure(msg) ==
    [total_polygons |-> 0, total_objects |-> 0, results |-> <<>>,
     success |-> FALSE, error |-> [text |-> msg]]

\* Lines 315-321.
FullSummary(res) ==
    [total_objects |-> SumCounts(res), success |-> TRUE, error |-> None]

\* Lines 323-329.
FullFailure(msg) ==
    [total_objects |-> 0, success |-> FALSE, error |-> [text |-> msg]]

RunFailure(m, msg) == IF m = "polygons" THEN ParallelFailure(msg) ELSE FullFailure(msg)

\* The green pixels of the rasters of the model: none, or one rectangle that
\* starts at the upper left corner.
Scenes(h, w) ==
    {{}} \cup {RasterPixels(r, c) : r \in 1..h, c \in 1..w}

Bounds(minx, miny, maxx, maxy) ==
    [minx |-> minx, miny |-> miny, maxx |-> maxx, maxy |-> maxy]

\* The polygons of the model, by their bounds on the pixel grid: the rows and
\* the columns of the raster, its whole extent, and the extent moved one
\* pixel up and left (outside the raster in part, or as a whole on a raster
\* one pixel high or wide).
Polygons(h, w) ==
    {Bounds(0, r, w, r + 1) : r \in 0..(h - 1)}
    \cup {Bounds(c, 0, c + 1, h) : c \in 0..(w - 1)}
    \cup {Bounds(0, 0, w, h), Bounds(0 - 1, 0 - 1, w - 1, h - 1)}

\* The contents of a shapefile: up to MaxGeoms geometries, some of them None.
GdfChoices(h, w) ==
    UNION { [1..n -> Polygons(h, w) \cup {None}] : n \in 0..MaxGeoms }

\* The (min_area, max_area) pairs of the model.
AreaRanges == {<<1, 3>>, <<2, 4>>}

NoTasks ==
    /\ tasks = <<>>
    /\ status = <<>>
    /\ results = <<>>
    /\ taskEnv = <<>>
    /\ outOfOrder = FALSE
    /\ execCount = <<>>

Init ==
    /\ mode \in {"full", "polygons"}
    /\ rasterH \in 1..MaxDim
    /\ rasterW \in 1..MaxDim
    /\ rasterState \in {"ok", "corrupt", "missing"}
    /\ green \in Scenes(rasterH, rasterW)
    /\ gdf = <<>>
    /\ n_workers \in 1..MaxGeoms
    /\ \E ar \in AreaRanges : min_area = ar[1] /\ max_area = ar[2]
    /\ pc = "start"
    /\ NoTasks
    /\ summary = NoSummary
    /\ fn = "none"
    /\ fnArgs = <<>>
    /\ fnRet = NoResult

\* The delayed calls built at lines 224-236 and 300-309: all Pending.
CreateTasks(ts) ==
    /\ tasks' = ts
    /\ status' = [k \in 1..Len(ts) |-> "Pending"]
    /\ results' = [k \in 1..Len(ts) |-> NoResult]
    /\ taskEnv' = [k \in 1..Len(ts) |-> NoResult]
    /\ execCount' = [k \in 1..Len(ts) |-> 0]
    /\ outOfOrder' = FALSE

\* The run returns d (the finally clause closes the client).
ReturnSummary(d) ==
    /\ summary' = d
    /\ pc' = "returned"

\* setup_dask_client, called before the try (lines 214 and 287): what it
\* raises leaves the run function.
SetupClient ==
    /\ pc = "start"
    /\ \E started \in BOOLEAN : pc' = IF started THEN "client" ELSE "raised"
    /\ UNCHANGED <<runVars, callVars, tasks, status, results, taskEnv, outOfOrder,
                   execCount, summary>>

\* process_orthophoto_parallel, lines 217-236.
StartPolygons ==
    /\ mode = "polygons"
    /\ pc = "client"
    /\ \/ /\ ReturnSummary(ParallelFailure(<<"load_polygon_shapefile", "cannot read shapefile">>))
          /\ UNCHANGED <<gdf, tasks, status, results, taskEnv, outOfOrder, execCount>>
       \/ \E g \in GdfChoices(rasterH, rasterW) :
            LET polygons == SelectSeq(g, LAMBDA geom : geom # None)
            IN /\ gdf' = g
               /\ CreateTasks([k \in 1..Len(polygons) |->
                                 [polygon_geom |-> polygons[k], window |-> None]])
               /\ pc' = "computing"
               /\ UNCHANGED summary
    /\ UNCHANGED <<mode, rasterH, rasterW, rasterState, green, n_workers,
                   min_area, max_area, callVars>>

\* process_orthophoto_full, lines 290-309.
StartFull ==
    /\ mode = "full"
    /\ pc = "client"
    /\ LET info == get_orthophoto_info(rasterState, rasterH, rasterW)
           windows == get_tiles_windows(rasterState, rasterH, rasterW, TILE_SIZE)
       IN IF ~info.ok
          THEN /\ ReturnSummary(FullFailure(info.msg))
               /\ UNCHANGED <<tasks, status, results, taskEnv, outOfOrder, execCount>>
          ELSE IF ~windows.ok
          THEN /\ ReturnSummary(FullFailure(<<windows.msg>>))
               /\ UNCHANGED <<tasks, status, results, taskEnv, outOfOrder, execCount>>
          ELSE /\ CreateTasks([k \in 1..Len(windows.value) |->
                                 [polygon_geom |-> None, window |-> windows.value[k]]])
               /\ pc' = "computing"
               /\ UNCHANGED summary
    /\ UNCHANGED <<runVars, callVars>>

TaskIds == 1..Len(tasks)

Running == {k \in TaskIds : status[k] = "Running"}

\* A plausible slip: a task that failed is handed to a worker once more.
Dispatch_retry(i) ==
    /\ pc = "computing"
    /\ status[i] \in {"Pending", "Failed"}
    /\ execCount[i] <= 1
    /\ Cardinality(Running) < n_workers
    /\ status' = [status EXCEPT ![i] = "Running"]
    /\ UNCHANGED <<runVars, callVars, pc, tasks, results, taskEnv, outOfOrder,
                   execCount, summary>>

\* dask.compute: a free worker takes a task that has not been started.
Dispatch(i) ==
    /\ pc = "computing"
    /\ status[i] = "Pending"
    /\ Cardinality(Running) < n_workers
    /\ status' = [status EXCEPT ![i] = "Running"]
    /\ UNCHANGED <<runVars, callVars, pc, tasks, results, taskEnv, outOfOrder,
                   execCount, summary>>

\* What the environment can do to a task: let every call through (and, in a
\* block of both colours, spread the green or not), or make a step that the
\* task reaches raise, with a message that names a codec or not.
EnvChoicesWith(t, clip) ==
    LET quiet == [fail |-> "none", msg |-> "", spread |-> FALSE, clip |-> clip]
        tw == TaskWindow(rasterState, t.polygon_geom, t.window, quiet)
        loaded == IF tw.ok
                  THEN load_orthophoto(rasterState, rasterH, rasterW, green, tw.value, quiet)
                  ELSE tw
        mixed == /\ loaded.ok
                 /\ loaded.value.green # {}
                 /\ loaded.value.green # BlockPixels(loaded.value)
        reached == (IF t.window = None /\ rasterState = "ok" THEN {"window"} ELSE {})
                   \cup (IF loaded.ok THEN {"load", "filter", "extract"} ELSE {})
    IN {quiet}
       \cup {[quiet EXCEPT !.spread = TRUE] : x \in IF mixed THEN {1} ELSE {}}
       \cup {[quiet EXCEPT !.fail = s, !.msg = "failed"] : s \in reached}
       \cup {[quiet EXCEPT !.fail = s, !.msg = CodecText] : s \in reached \cap {"load"}}

\* The read clips only where there is something to clip: a window that
\* reaches outside the raster.  After a clipped read the later steps are let
\* through.
EnvChoices(t) ==
    LET quiet == [fail |-> "none", msg |-> "", spread |-> FALSE, clip |-> FALSE]
        tw == TaskWindow(rasterState, t.polygon_geom, t.window, quiet)
        outside == /\ rasterState = "ok"
                   /\ tw.ok
                   /\ tw.value # None
                   /\ ~InsideRaster(tw.value, rasterH, rasterW)
    IN EnvChoicesWith(t, FALSE)
       \cup (IF outside THEN {e \in EnvChoicesWith(t, TRUE) : e.fail = "none"} ELSE {})

\* A plausible slip: results collected in order of arrival.
StoreResult_arrival(res, i, r) ==
    LET done == {k \in 1..Len(res) : res[k] # NoResult}
    IN [res EXCEPT ![Cardinality(done) + 1] = r]

\* dask.compute returns the results in the order of its arguments.
StoreResult(res, i, r) == [res EXCEPT ![i] = r]

\* A worker runs the body of task i to its end.
Execute(i) ==
    /\ pc = "computing"
    /\ status[i] = "Running"
    /\ \E env \in EnvChoices(tasks[i]) :
         LET out == process_orthophoto_chunk(rasterState, rasterH, rasterW, green,
                                             tasks[i].polygon_geom, tasks[i].window,
                                             min_area, max_area, env)
         IN /\ taskEnv' = [taskEnv EXCEPT ![i] = env]
            /\ execCount' = [execCount EXCEPT ![i] = @ + 1]
            /\ outOfOrder' = (outOfOrder \/ \E k \in 1..(i - 1) : status[k] \in {"Pending", "Running"})
            /\ IF out.ok
               THEN /\ results' = StoreResult(results, i, out.value)
                    /\ status' = [status EXCEPT ![i] =
                                    IF out.value.success THEN "Completed" ELSE "Failed"]
                    /\ UNCHANGED <<pc, summary>>
               ELSE \* the exception leaves dask.compute: lines 253 and 323
                    /\ status' = [status EXCEPT ![i] = "Failed"]
                    /\ ReturnSummary(RunFailure(mode, out.msg))
                    /\ UNCHANGED results
    /\ UNCHANGED <<runVars, callVars, tasks>>

\* dask.compute has every result: lines 241-251 and 314-321.
Finish ==
    /\ pc = "computing"
    /\ \A k \in TaskIds : status[k] \in {"Completed", "Failed"}
    /\ ReturnSummary(IF mode = "polygons"
                     THEN ParallelSummary(tasks, results)
                     ELSE FullSummary(results))
    /\ UNCHANGED <<runVars, callVars, tasks, status, results, taskEnv, outOfOrder, execCount>>

Next ==
    \/ SetupClient
    \/ StartPolygons
    \/ StartFull
    \/ \E i \in TaskIds : Dispatch(i)
    \/ \E i \in TaskIds : Execute(i)
    \/ Finish

Spec == Init /\ [][Next]_vars

\* The client starts, the run function goes on, and the scheduler keeps
\* handing tasks to free workers, which run them to their end.
FairSpec == Spec /\ WF_vars(Next)

----------------------------------------------------------------------------
\* A run that is interrupted from outside.

\* A KeyboardInterrupt (SIGINT) reaches the run function while dask.compute
\* waits (lines 239 and 312).  It is no Exception, so the except clauses of
\* lines 253 and 323 do not apply; the finally clause closes the client
\* (lines 262-264, 330-332) and with it the cluster and the worker processes
\* the client started, and the interrupt leaves the run function.  A worker
\* that is closed gives its running task a grace period or is terminated:
\* which of the running tasks are cut off is the environment's choice.
Interrupt ==
    /\ pc = "computing"
    /\ pc' = "interrupted"
    /\ \E killed \in SUBSET Running :
         status' = [k \in TaskIds |-> IF k \in killed THEN "Killed" ELSE status[k]]
    /\ UNCHANGED <<runVars, callVars, tasks, results, taskEnv, outOfOrder,
                   execCount, summary>>

\* A task that was running when the client was closed, and was not cut off,
\* runs its body to the end on its worker.
Drain(i) ==
    /\ pc = "interrupted"
    /\ status[i] = "Running"
    /\ \E env \in EnvChoices(tasks[i]) :
         LET out == process_orthophoto_chunk(rasterState, rasterH, rasterW, green,
                                             tasks[i].polygon_geom, tasks[i].window,
                                             min_area, max_area, env)
         IN /\ taskEnv' = [taskEnv EXCEPT ![i] = env]
            /\ execCount' = [execCount EXCEPT ![i] = @ + 1]
            /\ results' = StoreResult(results, i, out.value)
            /\ status' = [status EXCEPT ![i] =
                            IF out.value.success THEN "Completed" ELSE "Failed"]
    /\ UNCHANGED <<runVars, callVars, pc, tasks, outOfOrder, summary>>

NextInterruptible ==
    \/ Next
    \/ Interrupt
    \/ \E i \in TaskIds : Drain(i)

SpecInterruptible == Init /\ [][NextInterruptible]_vars

----------------------------------------------------------------------------
\* The command line program (main.py).

\* What the environment can do to process_orthophoto_simple: let every call
\* through (spreading the green of a block of both colours or not), or make
\* the read, the smoothing, the extraction or the writing of the summary
\* file raise.
SimpleEnvChoices ==
    LET quiet == [fail |-> "none", msg |-> "", spread |-> FALSE]
        mixed == green # {} /\ green # RasterPixels(rasterH, rasterW)
    IN {quiet}
       \cup {[quiet EXCEPT !.spread = TRUE] : x \in IF mixed THEN {1} ELSE {}}
       \cup {[fail |-> st, msg |-> "failed", spread |-> FALSE] :
                st \in {"load", "filter", "extract", "save"}}

\* Lines 162-171 of main.py.
SimpleFailure(msg) ==
    [total_objects |-> 0, success |-> FALSE, error |-> [text |-> msg]]

\* process_orthophoto_simple, main.py lines 123-171.  json.dump (line 157)
\* writes results_summary with the RegionProperties objects in it: it can
\* encode an empty list and raises TypeError for any other.
process_orthophoto_simple(rstate, h, w, greenSet, minA, maxA, env) ==
    LET loaded == load_orthophoto(rstate, h, w, greenSet, None, env)
    IN IF ~loaded.ok THEN SimpleFailure(loaded.msg)
       ELSE IF env.fail \in {"load", "filter", "extract"} THEN SimpleFailure(<<env.msg>>)
       ELSE LET processed_orthophoto == apply_gaussian_filter(loaded.value, env.spread)
                vegetation_objects ==
                    extract_vegetation_objects(processed_orthophoto, minA, maxA, CONNECTIVITY)
            IN IF env.fail = "save" THEN SimpleFailure(<<env.msg>>)
               ELSE IF vegetation_objects # <<>>
               THEN SimpleFailure(<<"Object of type RegionProperties is not JSON serializable">>)
               ELSE [total_objects |-> Len(vegetation_objects),
                     objects |-> vegetation_objects,
                     success |-> TRUE,
                     error |-> None]

\* The parameters of process_orthophoto_in_polygons (main.py lines 23-27) and
\* the keywords main passes to it (lines 233-238).
InPolygonsParams ==
    {"orthophoto_path", "shapefile_path", "output_dir", "buffer_meters", "n_workers"}
MainPolygonKeywords == {"n_workers", "min_area", "max_area"}

\* The keywords process_orthophoto_in_polygons passes on to
\* process_orthophoto_parallel (main.py lines 44-50); the parameters it does
\* not pass keep their defaults there (min_area=100, max_area=10000).
ParallelKeywords == {"n_workers", "local_directory"}

\* The shapefiles of a command line run: up to MaxGeoms geometries, each the
\* extent of the raster or None.
MainGdfChoices(h, w) ==
    UNION { [1..n -> {Bounds(0, 0, w, h), None}] : n \in 0..MaxGeoms }

\* The call of lines 230-238: Python binds the arguments before the body runs.
process_orthophoto_in_polygons_call ==
    IF MainPolygonKeywords \subseteq InPolygonsParams
    THEN Return(None)
    ELSE Raise("TypeError", <<"got an unexpected keyword argument">>)

\* The exit status of the interpreter after main: 0 when main returns, 1
\* when an exception leaves it.
ExitCode(ret) == IF ret.ok THEN 0 ELSE 1

InitMain ==
    /\ mode = "main"
    /\ rasterH \in 1..MaxDim
    /\ rasterW \in 1..MaxDim
    /\ rasterState \in {"ok", "corrupt", "missing"}
    /\ green \in Scenes(rasterH, rasterW)
    /\ n_workers = 1
    /\ \E ar \in AreaRanges : min_area = ar[1] /\ max_area = ar[2]
    /\ pc = "main"
    /\ NoTasks
    /\ summary = NoSummary
    /\ fn = "main"
    /\ fnArgs \in [shapefile : {"none", "ok", "missing", "unreadable"},
                    output : {"ok", "denied"},
                    env : {NoResult},
                    polygons : {NoResult},
                    reads : {<<>>}]
    /\ gdf \in IF fnArgs.shapefile = "ok" THEN MainGdfChoices(rasterH, rasterW) ELSE {<<>>}
    /\ fnRet = NoResult

\* main, lines 188-221: the raster path, the output directory, the shapefile
\* path.  Every failure prints a message and returns.
MainPrepare ==
    /\ pc = "main"
    /\ IF rasterState = "missing" \/ fnArgs.output = "denied"
       THEN /\ pc' = "exited"
            /\ fnRet' = Return(None)
            /\ UNCHANGED fnArgs
       ELSE /\ pc' = "process"
            /\ fnArgs' = [fnArgs EXCEPT !.shapefile =
                             IF @ = "missing" THEN "none" ELSE @]
            /\ UNCHANGED fnRet
    /\ UNCHANGED <<runVars, fn, tasks, status, results, taskEnv, outOfOrder,
                   execCount, summary>>

\* main, lines 223-259: the polygon branch (fnArgs.polygons: how the call of
\* process_orthophoto_in_polygons ended; what it raises is printed by the
\* except clause of line 239) or process_orthophoto (main.py lines 53-105),
\* which runs process_orthophoto_simple under fnArgs.env and prints its
\* result.  fnArgs.reads lists the window argument of every load_orthophoto
\* call made: process_orthophoto_simple makes one, without a window (line
\* 126).
MainProcess ==
    /\ pc = "process"
    /\ IF fnArgs.shapefile # "none"
       THEN /\ fnArgs' = [fnArgs EXCEPT !.polygons = process_orthophoto_in_polygons_call]
            /\ UNCHANGED summary
       ELSE \E env \in SimpleEnvChoices :
              /\ summary' = process_orthophoto_simple(rasterState, rasterH, rasterW,
                                                      green, min_area, max_area, env)
              /\ fnArgs' = [fnArgs EXCEPT !.env = env, !.reads = Append(@, None)]
    /\ pc' = "exited"
    /\ fnRet' = Return(None)
    /\ UNCHANGED <<runVars, fn, tasks, status, results, taskEnv, outOfOrder,
                   execCount>>

NextMain == MainPrepare \/ MainProcess

SpecMain == InitMain /\ [][NextMain]_vars

----------------------------------------------------------------------------
\* Single calls of get_tiles_windows and of extract_objects.

CallInit(f) ==
    /\ mode = "call"
    /\ fn = f
    /\ fnRet = NoResult
    /\ rasterState = "ok"
    /\ green = {}
    /\ gdf = <<>>
    /\ n_workers = 1
    /\ pc = "call"
    /\ NoTasks
    /\ summary = NoSummary

InitTiles ==
    /\ CallInit("get_tiles_windows")
    /\ rasterH \in 1..MaxSide
    /\ rasterW \in 1..MaxSide
    /\ fnArgs \in [tile_size : 1..MaxTile]
    /\ min_area = 1
    /\ max_area = 1

CallTiles ==
    /\ fn = "get_tiles_windows"
    /\ fnRet = NoResult
    /\ fnRet' = get_tiles_windows(rasterState, rasterH, rasterW, fnArgs.tile_size)
    /\ UNCHANGED <<runVars, pc, tasks, status, results, taskEnv, outOfOrder,
                   execCount, summary, fn, fnArgs>>

SpecTiles == InitTiles /\ [][CallTiles]_vars

\* Calls of get_tiles_windows with any integer tile edge, zero and negative
\* ones included.
InitTilesAny ==
    /\ CallInit("get_tiles_windows")
    /\ rasterH \in 1..MaxSide
    /\ rasterW \in 1..MaxSide
    /\ fnArgs \in [tile_size : (0 - MaxTile)..MaxTile]
    /\ min_area = 1
    /\ max_area = 1

SpecTilesAny == InitTilesAny /\ [][CallTiles]_vars

\* A third colour: its G/R ratio is 2, its G/B ratio 1.33.
MixedRGB == <<100, 200, 150>>
Palette == {BlackRGB, GreenRGB, MixedRGB}

\* The thresholds tried, in thousandths.
RatioThresholds == {GREEN_RATIO_THRESHOLD, 1500}
IndexThresholds == {GREEN_INDEX_THRESHOLD, 400}

\* rgb_data of shape (h, w, 3) with pixels from the palette.
RgbBlocks(h, w) == [RasterPixels(h, w) -> Palette]

\* threshold_classification(rgb_data, green_ratio_threshold,
\* green_index_threshold), lines 33-47: the mask as an array of 0 and 255.
\* The function has one ratio threshold, used for both ratios (lines 39-40).
threshold_classification_mask(rgb_data, green_ratio_threshold, green_index_threshold) ==
    [p \in DOMAIN rgb_data |->
        IF VegetationPixel(rgb_data[p], green_ratio_threshold, green_index_threshold)
        THEN 255 ELSE 0]

\* Calls of threshold_classification by a caller who wants the thresholds
\* t_gr, t_gb and t_gi: green_ratio_threshold (documented as the G/R
\* threshold) and green_index_threshold are the parameters there are.
InitThreshold ==
    /\ CallInit("threshold_classification")
    /\ rasterH \in 1..MaxBlock
    /\ rasterW \in 1..MaxBlock
    /\ fnArgs \in [rgb_data : RgbBlocks(rasterH, rasterW),
                    t_gr : RatioThresholds,
                    t_gb : RatioThresholds,
                    t_gi : IndexThresholds]
    /\ min_area = 1
    /\ max_area = 1

CallThreshold ==
    /\ fn = "threshold_classification"
    /\ fnRet = NoResult
    /\ fnRet' = Return(threshold_classification_mask(fnArgs.rgb_data, fnArgs.t_gr, fnArgs.t_gi))
    /\ UNCHANGED <<runVars, pc, tasks, status, results, taskEnv, outOfOrder,
                   execCount, summary, fn, fnArgs>>

SpecThreshold == InitThreshold /\ [][CallThreshold]_vars

\* The names of the thresholds of combined_classification, in the order in
\* which line 107-109 look them up.
ThresholdNames == <<"green_red_ratio", "green_blue_ratio", "green_index">>

\* The values tried for a threshold name, in thousandths.
ThresholdValues(name) == IF name = "green_index" THEN IndexThresholds ELSE RatioThresholds

\* The thresholds argument: not passed (None), or a dictionary that names
\* any of the thresholds.
ThresholdMappings ==
    LET names == {ThresholdNames[k] : k \in 1..Len(ThresholdNames)}
        dicts == UNION {{f \in [D -> RatioThresholds \cup IndexThresholds] :
                            \A n \in D : f[n] \in ThresholdValues(n)} : D \in SUBSET names}
    IN {[passed |-> FALSE, dict |-> <<>>]} \cup {[passed |-> TRUE, dict |-> f] : f \in dicts}

\* Lines 96-101: the dictionary used when thresholds is None.
DefaultThresholds ==
    [green_red_ratio |-> GREEN_RATIO_THRESHOLD,
     green_blue_ratio |-> GREEN_RATIO_THRESHOLD,
     green_index |-> GREEN_INDEX_THRESHOLD]

\* combined_classification(rgb_data, thresholds), lines 96-113.  thresholds[...]
\* of a name the dictionary does not have raises KeyError.
combined_classification(rgb_data, thresholds) ==
    LET th == IF thresholds.passed THEN thresholds.dict ELSE DefaultThresholds
        missing == {k \in 1..Len(ThresholdNames) : ThresholdNames[k] \notin DOMAIN th}
    IN IF missing # {}
       THEN Raise("KeyError", ThresholdNames[CHOOSE k \in missing : \A j \in missing : k <= j])
       ELSE Return([p \in DOMAIN rgb_data |->
                      IF /\ rgb_data[p][2] * 1000000 >= th.green_red_ratio * (rgb_data[p][1] * 1000 + 1)
                         /\ rgb_data[p][2] * 1000000 >= th.green_blue_ratio * (rgb_data[p][3] * 1000 + 1)
                         /\ (rgb_data[p][2] - rgb_data[p][1]) * 1000000
                              >= th.green_index * ((rgb_data[p][2] + rgb_data[p][1]) * 1000 + 1)
                      THEN 255 ELSE 0])

InitCombined ==
    /\ CallInit("combined_classification")
    /\ rasterH \in 1..MaxBlock
    /\ rasterW \in 1..MaxBlock
    /\ fnArgs \in [rgb_data : RgbBlocks(rasterH, rasterW), thresholds : ThresholdMappings]
    /\ min_area = 1
    /\ max_area = 1

CallCombined ==
    /\ fn = "combined_classification"
    /\ fnRet = NoResult
    /\ fnRet' = combined_classification(fnArgs.rgb_data, fnArgs.thresholds)
    /\ UNCHANGED <<runVars, pc, tasks, status, results, taskEnv, outOfOrder,
                   execCount, summary, fn, fnArgs>>

SpecCombined == InitCombined /\ [][CallCombined]_vars

\* spectral_indices.py lines 24-64 for one pixel, in thousandths (rounded
\* down): G / (R + 0.001), G / (B + 0.001), (G - R) / (G + R + 0.001).
calculate_green_ratio(r, g) == (g * 1000000) \div (r * 1000 + 1)
calculate_green_blue_ratio(g, b) == (g * 1000000) \div (b * 1000 + 1)
calculate_green_index(r, g) == ((g - r) * 1000000) \div ((g + r) * 1000 + 1)

\* A plausible slip: a fourth grid returned with the three.
calculate_color_indices_with_ndvi(rgb_data) ==
    [green_red_ratio |-> [p \in DOMAIN rgb_data |->
                            calculate_green_ratio(rgb_data[p][1], rgb_data[p][2])],
     green_blue_ratio |-> [p \in DOMAIN rgb_data |->
                             calculate_green_blue_ratio(rgb_data[p][2], rgb_data[p][3])],
     green_index |-> [p \in DOMAIN rgb_data |->
                        calculate_green_index(rgb_data[p][1], rgb_data[p][2])],
     ndvi |-> [p \in DOMAIN rgb_data |->
                 calculate_green_index(rgb_data[p][1], rgb_data[p][2])]]

\* calculate_color_indices, spectral_indices.py lines 67-89: the channels
\* are copied out of the block (astype) and the three grids built from them.
calculate_color_indices(rgb_data) ==
    LET r == [p \in DOMAIN rgb_data |-> rgb_data[p][1]]
        g == [p \in DOMAIN rgb_data |-> rgb_data[p][2]]
        b == [p \in DOMAIN rgb_data |-> rgb_data[p][3]]
    IN [green_red_ratio |-> [p \in DOMAIN rgb_data |-> calculate_green_ratio(r[p], g[p])],
        green_blue_ratio |-> [p \in DOMAIN rgb_data |-> calculate_green_blue_ratio(g[p], b[p])],
        green_index |-> [p \in DOMAIN rgb_data |-> calculate_green_index(r[p], g[p])]]

\* Pixels with a zero denominator in one index or in all: black, no red,
\* no blue; with three channels or with a fourth (alpha).
ZeroChannelColours(channels) ==
    LET rgb == {<<0, 0, 0>>, <<0, 200, 50>>, <<50, 200, 0>>}
    IN IF channels = 3 THEN rgb ELSE {c \o <<255>> : c \in rgb}

InitIndices ==
    /\ CallInit("calculate_color_indices")
    /\ rasterH \in 1..MaxBlock
    /\ rasterW \in 1..MaxBlock
    /\ \E channels \in {3, 4} :
         fnArgs \in [rgb_data : [RasterPixels(rasterH, rasterW) -> ZeroChannelColours(channels)]]
    /\ min_area = 1
    /\ max_area = 1

\* The call reads the block (astype copies each channel) and assigns to no
\* element of it.
CallIndices ==
    /\ fn = "calculate_color_indices"
    /\ fnRet = NoResult
    /\ fnRet' = Return(calculate_color_indices(fnArgs.rgb_data))
    /\ UNCHANGED <<runVars, pc, tasks, status, results, taskEnv, outOfOrder,
                   execCount, summary, fn, fnArgs>>

SpecIndices == InitIndices /\ [][CallIndices]_vars

\* scipy.ndimage's default boundary mode "reflect" (d c b a | a b c d | d c b a)
\* for an index on an axis of length n.
Reflect(i, n) ==
    LET m == i % (2 * n)
    IN IF m < n THEN m ELSE 2 * n - 1 - m

RECURSIVE SumAt(_, _)
\* The sum of the values of grid at the positions of the sequence at.
SumAt(grid, at) ==
    IF at = <<>> THEN 0 ELSE grid[Head(at)] + SumAt(grid, Tail(at))

\* The positions that the size x size window centred at p takes its values
\* from, one entry per window cell (size odd).
WindowCells(p, h, w, size) ==
    LET half == size \div 2
    IN [k \in 1..(size * size) |->
          <<Reflect(p[1] - half + ((k - 1) \div size), h),
            Reflect(p[2] - half + ((k - 1) % size), w)>>]

\* ndimage.uniform_filter(grid, size) times size * size: the sum over the
\* window, so that the mean needs no division.
uniform_filter_sum(grid, h, w, size) ==
    [p \in RasterPixels(h, w) |-> SumAt(grid, WindowCells(p, h, w, size))]

\* adaptive_threshold_classification, threshold_classification.py lines
\* 65-82: ratio >= mean * 0.8 for both ratios.
adaptive_threshold_classification(rgb_data, h, w, local_window_size) ==
    LET indices == calculate_color_indices(rgb_data)
        green_red_ratio == indices.green_red_ratio
        green_blue_ratio == indices.green_blue_ratio
        cells == local_window_size * local_window_size
        green_red_sum == uniform_filter_sum(green_red_ratio, h, w, local_window_size)
        green_blue_sum == uniform_filter_sum(green_blue_ratio, h, w, local_window_size)
    IN [p \in RasterPixels(h, w) |->
          IF /\ green_red_ratio[p] * 10 * cells >= green_red_sum[p] * 8
             /\ green_blue_ratio[p] * 10 * cells >= green_blue_sum[p] * 8
          THEN 255 ELSE 0]

\* The odd window sides tried for local_window_size.
LocalWindowSizes == {1, 3}

InitAdaptive ==
    /\ CallInit("adaptive_threshold_classification")
    /\ rasterH \in 1..MaxBlock
    /\ rasterW \in 1..MaxBlock
    /\ fnArgs \in [rgb_data : RgbBlocks(rasterH, rasterW),
                   local_window_size : LocalWindowSizes]
    /\ min_area = 1
    /\ max_area = 1

CallAdaptive ==
    /\ fn = "adaptive_threshold_classification"
    /\ fnRet = NoResult
    /\ fnRet' = Return(adaptive_threshold_classification(fnArgs.rgb_data, rasterH, rasterW,
                                                         fnArgs.local_window_size))
    /\ UNCHANGED <<runVars, pc, tasks, status, results, taskEnv, outOfOrder,
                   execCount, summary, fn, fnArgs>>

SpecAdaptive == InitAdaptive /\ [][CallAdaptive]_vars

\* The regions handed to filter_by_shape: their area and perimeter.
ShapeRegions == [area : 1..MaxArea, perimeter : 0..MaxPerimeter]

\* The values of min_circularity tried, in thousandths; 500 is the default.
MinCircularities == {0, 500, 1000, 2000}

RECURSIVE SeqsUpTo(_, _)
SeqsUpTo(S, n) ==
    IF n = 0 THEN {<<>>}
    ELSE LET shorter == SeqsUpTo(S, n - 1)
         IN shorter \cup {Append(q, x) : q \in shorter, x \in S}

InitShape ==
    /\ CallInit("filter_by_shape")
    /\ rasterH = 1
    /\ rasterW = 1
    /\ fnArgs \in [regions : SeqsUpTo(ShapeRegions, MaxRegions),
                   min_circularity : MinCircularities]
    /\ min_area = 1
    /\ max_area = 1

CallShape ==
    /\ fn = "filter_by_shape"
    /\ fnRet = NoResult
    /\ fnRet' = filter_by_shape(fnArgs.regions, fnArgs.min_circularity)
    /\ UNCHANGED <<runVars, pc, tasks, status, results, taskEnv, outOfOrder,
                   execCount, summary, fn, fnArgs>>

SpecShape == InitShape /\ [][CallShape]_vars

\* The radii tried for opening_size and closing_size.
MorphSizes == 0..MaxRadius

InitMorph ==
    /\ CallInit("morphological_operations")
    /\ rasterH \in 1..MaxBlock
    /\ rasterW \in 1..(MaxBlock + 1)
    /\ fnArgs \in [binary_mask : SUBSET RasterPixels(rasterH, rasterW),
                   opening_size : MorphSizes,
                   closing_size : MorphSizes]
    /\ min_area = 1
    /\ max_area = 1

CallMorph ==
    /\ fn = "morphological_operations"
    /\ fnRet = NoResult
    /\ fnRet' = Return(morphological_operations(fnArgs.binary_mask,
                                                [height |-> rasterH, width |-> rasterW],
                                                fnArgs.opening_size, fnArgs.closing_size))
    /\ UNCHANGED <<runVars, pc, tasks, status, results, taskEnv, outOfOrder,
                   execCount, summary, fn, fnArgs>>

SpecMorph == InitMorph /\ [][CallMorph]_vars

InitExtract ==
    /\ CallInit("extract_objects")
    /\ rasterH = MaxMask
    /\ rasterW = MaxMask + 1
    /\ fnArgs \in [binary_mask : SUBSET RasterPixels(MaxMask, MaxMask + 1),
                   connectivity : {4, 8}]
    /\ min_area \in 1..3
    /\ max_area \in 1..3

CallExtract ==
    /\ fn = "extract_objects"
    /\ fnRet = NoResult
    /\ fnRet' = Return(extract_objects(fnArgs.binary_mask, min_area, max_area,
                                       fnArgs.connectivity))
    /\ UNCHANGED <<runVars, pc, tasks, status, results, taskEnv, outOfOrder,
                   execCount, summary, fn, fnArgs>>

SpecExtract == InitExtract /\ [][CallExtract]_vars

----------------------------------------------------------------------------
\* Properties.

\* The windows ws are pairwise disjoint, lie inside an h x w raster with
\* positive height and width, and cover it.
IsTiling(ws, h, w) ==
    /\ \A k \in 1..Len(ws) : InsideRaster(ws[k], h, w)
    /\ \A k, j \in 1..Len(ws) :
         k # j => WindowPixels(ws[k]) \cap WindowPixels(ws[j]) = {}
    /\ UNION {WindowPixels(ws[k]) : k \in 1..Len(ws)} = RasterPixels(h, w)

TilesReturned == mode = "call" /\ fn = "get_tiles_windows" /\ fnRet # NoResult

\* C1: for every raster height H > 0, width W > 0 and tile edge T > 0,
\* get_tiles_windows returns windows that are pairwise disjoint, lie inside
\* the raster with positive height and width, and whose union is exactly
\* [0,H) x [0,W).
C1_TilesCoverRaster ==
    TilesReturned =>
        /\ fnRet.ok
        /\ IsTiling(fnRet.value, rasterH, rasterW)

\* The loop of lines 75-80 taken alone yields such windows for every
\* H, W, T > 0 of the model.
TileLoopIsTiling ==
    (mode = "call" /\ fn = "get_tiles_windows") =>
        IsTiling(TileLoop(rasterH, rasterW, fnArgs.tile_size), rasterH, rasterW)

ExtractReturned == mode = "call" /\ fn = "extract_objects" /\ fnRet # NoResult

\* The connected component of the mask that contains pixel p.
ComponentAt(p) == Grow({p}, fnArgs.binary_mask, fnArgs.connectivity)

\* C9: every object returned by extract_objects has
\* min_area <= area <= max_area, and a connected component of the mask is
\* returned if and only if its area is in that closed range.
C9_AreaFilter ==
    ExtractReturned =>
        LET ret == fnRet.value
        IN /\ \A k \in 1..Len(ret) :
                min_area <= ret[k].area /\ ret[k].area <= max_area
           /\ \A p \in fnArgs.binary_mask :
                LET comp == ComponentAt(p)
                    area == Cardinality(comp)
                IN (min_area <= area /\ area <= max_area)
                   <=> (\E k \in 1..Len(ret) : ret[k] = regionprops(comp))
           /\ \A k, j \in 1..Len(ret) : k # j => ret[k] # ret[j]

\* extract_objects has returned for a mask with a component whose area is
\* exactly max_area, which is kept, and a component below min_area, which
\* is dropped.
C9_Witness ==
    /\ ExtractReturned
    /\ \E p, q \in fnArgs.binary_mask :
         /\ Cardinality(ComponentAt(p)) = max_area
         /\ Cardinality(ComponentAt(q)) < min_area
    /\ Len(fnRet.value) = 1

----------------------------------------------------------------------------
\* Properties of the runs.

Terminal(i) == status[i] \in {"Completed", "Failed"}

Executed(i) == taskEnv[i] # NoResult

\* The window task i works in (defined once the task has run and the window
\* could be computed).
WindowOf(i) == TaskWindow(rasterState, tasks[i].polygon_geom, tasks[i].window, taskEnv[i]).value

\* The objects of task i in the coordinates of its window, before lines
\* 137-151.
LocalObjects(i) ==
    LET loaded == load_orthophoto(rasterState, rasterH, rasterW, green, WindowOf(i), taskEnv[i])
    IN extract_vegetation_objects(apply_gaussian_filter(loaded.value, taskEnv[i].spread),
                                  min_area, max_area, CONNECTIVITY)

\* The raster pixels inside a bounding box (min_row, min_col, max_row, max_col).
BoxPixels(bbox) ==
    {<<r, c>> : r \in bbox[1]..(bbox[3] - 1), c \in bbox[2]..(bbox[4] - 1)}

\* Object obj of a task is the local object loc moved by the offset of
\* window win, and nothing else.
ShiftedOnce(obj, loc, win) ==
    /\ DOMAIN obj = {"area", "bbox", "centroid"}
    /\ obj.area = loc.area
    /\ obj.bbox = <<loc.bbox[1] + win.row_off, loc.bbox[2] + win.col_off,
                    loc.bbox[3] + win.row_off, loc.bbox[4] + win.col_off>>
    /\ obj.centroid[1] = <<loc.centroid[1][1] + win.row_off * loc.area, loc.area>>
    /\ obj.centroid[2] = <<loc.centroid[2][1] + win.col_off * loc.area, loc.area>>

ResultAreasInRange ==
    \A i \in TaskIds :
        results[i] # NoResult =>
            \A k \in 1..Len(results[i].objects) :
                /\ min_area <= results[i].objects[k].area
                /\ results[i].objects[k].area <= max_area

\* Task i ran into an error: the environment made one of its steps raise,
\* the raster could not be opened, or its window reaches outside the raster
\* and the read refused it.
HitError(i) ==
    \/ taskEnv[i].fail # "none"
    \/ rasterState # "ok"
    \/ ~InsideRaster(WindowOf(i), rasterH, rasterW) /\ ~taskEnv[i].clip

\* C3: any error raised while a task computes its window, reads it,
\* preprocesses, classifies, cleans or extracts is returned by that task as
\* a result with success = false, no objects and the error's message;
\* nothing leaves process_orthophoto_chunk, every sibling still runs to its
\* own result, and the run returns its summary with success = true.
C3_TaskErrorIsolated ==
    /\ \A i \in TaskIds :
         /\ Terminal(i) <=> results[i] # NoResult
         /\ (Executed(i) /\ HitError(i)) =>
              /\ status[i] = "Failed"
              /\ results[i] # NoResult
              /\ results[i].success = FALSE
              /\ results[i].count = 0
              /\ results[i].objects = <<>>
              /\ results[i].error # None
              /\ taskEnv[i].fail # "none" => Mentions(results[i].error.text, taskEnv[i].msg)
         /\ (Executed(i) /\ ~HitError(i)) =>
              /\ status[i] = "Completed"
              /\ results[i].success
              /\ results[i].error = None
    /\ (pc = "returned" /\ tasks # <<>>) =>
         /\ summary.success
         /\ \A i \in TaskIds : Executed(i) /\ results[i] # NoResult
         /\ summary.results = results

\* A run has returned in which one task failed at a step the environment
\* made raise and a sibling completed with an object.
C3_Witness ==
    /\ pc = "returned"
    /\ \E i, j \in TaskIds :
         /\ status[i] = "Failed"
         /\ taskEnv[i].fail \in Stages
         /\ status[j] = "Completed"
         /\ results[j].count >= 1

RECURSIVE CountOver(_)
\* Number of objects in the results of the tasks of S.
CountOver(S) ==
    IF S = {} THEN 0
    ELSE LET k == CHOOSE x \in S : TRUE
         IN Len(results[k].objects) + CountOver(S \ {k})

Succeeded == {k \in TaskIds : results[k] # NoResult /\ results[k].success}

\* The read of the window of task i failed.
ReadFailed(i) ==
    /\ results[i] # NoResult
    /\ ~results[i].success
    /\ Mentions(results[i].error.text, "load_orthophoto")

ShapefileFailed ==
    /\ mode = "polygons"
    /\ ~summary.success
    /\ Mentions(summary.error.text, "load_polygon_shapefile")

\* C5: the run summary's success is true if and only if the raster could be
\* opened (full-raster run and polygon run alike); a raster that cannot be
\* opened ends the run with success = false and a run-level error.
C5_SuccessIffRasterOpens ==
    (pc = "returned" /\ ~ShapefileFailed) =>
        /\ summary.success <=> rasterState = "ok"
        /\ ~summary.success => ("error" \in DOMAIN summary /\ summary.error # None)

\* C6: an object that spans several tiles is reported once: a full-raster
\* run over a raster whose green pixels form one rectangle with an area in
\* [min_area, max_area] returns success = true and total_objects = 1.
C6_OneObjectAcrossTiles ==
    (/\ mode = "full"
     /\ pc = "returned"
     /\ rasterState = "ok"
     /\ green # {}
     /\ min_area <= Cardinality(green)
     /\ Cardinality(green) <= max_area) =>
        /\ summary.success
        /\ summary.total_objects = 1

\* C7: the run summary keeps one result per dispatched task, each with the
\* identity of its task (window or polygon), at the position of the task
\* whatever the order of completion, in a full-raster run as well as in a
\* polygon run.
C7_SummaryKeepsResults ==
    pc = "returned" =>
        /\ "results" \in DOMAIN summary
        /\ Len(summary.results) = Len(tasks)
        /\ \A k \in TaskIds :
             /\ Terminal(k) => summary.results[k] = results[k]
             /\ summary.results[k].polygon = tasks[k].polygon_geom

\* The polygon run alone keeps one result per task with its polygon.
ParallelKeepsResults ==
    (pc = "returned" /\ mode = "polygons") =>
        /\ Len(summary.results) = Len(tasks)
        /\ \A k \in TaskIds :
             /\ summary.results[k] = results[k]
             /\ summary.results[k].polygon = tasks[k].polygon_geom

\* What task k returns, from its inputs and what the environment did to it.
OutcomeOf(k) ==
    process_orthophoto_chunk(rasterState, rasterH, rasterW, green,
                             tasks[k].polygon_geom, tasks[k].window,
                             min_area, max_area, taskEnv[k]).value

\* C8: aggregation is order-independent: the run summary (total_objects,
\* success, per-task results) is determined by the tasks and by what each
\* task returned, whatever the order in which the workers completed them;
\* the same holds for the total and success of lines 315-321.
C8_OrderIndependent ==
    (pc = "returned" /\ tasks # <<>>) =>
        LET byTask == [k \in TaskIds |-> OutcomeOf(k)]
        IN /\ summary = ParallelSummary(tasks, byTask)
           /\ summary.total_objects = CountOver(Succeeded)
           /\ FullSummary(results) = FullSummary(byTask)

\* A run has returned whose tasks completed out of creation order with
\* different results, one of them with objects.
C8_Witness ==
    /\ pc = "returned"
    /\ outOfOrder
    /\ Len(tasks) >= 2
    /\ results[1] # results[2]
    /\ results[1].count # results[2].count

\* One step of the life of the tasks: created Pending all at once, then
\* Pending -> Running -> Completed or Failed, the body run when the task
\* leaves Running, and nothing after that.
LifecycleStep ==
    /\ tasks' # tasks =>
         /\ tasks = <<>>
         /\ \A k \in 1..Len(tasks') : status'[k] = "Pending" /\ execCount'[k] = 0
    /\ \A i \in TaskIds :
         /\ status[i] = "Pending" => status'[i] \in {"Pending", "Running"}
         /\ status[i] = "Running" => status'[i] \in {"Running", "Completed", "Failed"}
         /\ Terminal(i) => (status'[i] = status[i] /\ results'[i] = results[i])
         /\ execCount'[i] = execCount[i] +
              (IF status[i] = "Running" /\ status'[i] # "Running" THEN 1 ELSE 0)

LifecycleState ==
    /\ \A i \in TaskIds :
         /\ execCount[i] <= 1
         /\ Terminal(i) <=> execCount[i] = 1
         /\ status[i] = "Completed" <=> (results[i] # NoResult /\ results[i].success)
         /\ (Executed(i) /\ ~HitError(i) /\ results[i].objects = <<>>) =>
              (status[i] = "Completed" /\ results[i].success /\ results[i].count = 0)
    /\ (pc = "returned" /\ summary.success) => \A i \in TaskIds : Terminal(i)

\* C10: each task of a run is consumed exactly once and follows
\* Pending -> Running -> Completed or Failed: all tasks start Pending, none
\* is executed twice or skipped, a task in Completed or Failed never changes
\* again, a task that ends normally with zero objects is Completed
\* (success = true, count = 0), and under fair scheduling every task reaches
\* Completed or Failed and the run returns its summary.
C10_TaskLifecycle ==
    /\ [][LifecycleStep]_vars
    /\ []LifecycleState
    /\ (pc = "computing" ~> (pc = "returned" /\ \A i \in TaskIds : Terminal(i)))

\* A run has returned whose tasks ran once each, one of them Completed
\* with zero objects and one Failed.
C10_Witness ==
    /\ pc = "returned"
    /\ \E i, j \in TaskIds :
         /\ status[i] = "Completed"
         /\ results[i].count = 0
         /\ execCount[i] = 1
         /\ status[j] = "Failed"
         /\ execCount[j] = 1

\* C11: after an external cancellation signal arrives during a run, no
\* further Pending task is dispatched, and every task that is Running at
\* that moment still runs to Completed or Failed without being interrupted
\* mid-pipeline.
C11_CancelLetsRunningFinish ==
    [][pc' = "interrupted" =>
          \A i \in TaskIds :
              /\ status[i] = "Pending" => status'[i] = "Pending"
              /\ status[i] = "Running" => status'[i] \in {"Running", "Completed", "Failed"}]_vars

\* The part of C11 that the code does satisfy: once interrupted, no Pending
\* task is dispatched.
NoDispatchAfterInterrupt ==
    [][pc' = "interrupted" =>
          \A i \in TaskIds : status[i] = "Pending" => status'[i] = "Pending"]_vars

\* Tasks i and j were given the same polygon and window, and the environment
\* treated both alike.
SameInputs(i, j) ==
    /\ tasks[i].polygon_geom = tasks[j].polygon_geom
    /\ tasks[i].window = tasks[j].window
    /\ taskEnv[i] = taskEnv[j]

C13_InvalidTileRejected ==
    (TilesReturned /\ fnArgs.tile_size <= 0) =>
        /\ ~fnRet.ok
        /\ fnRet.exc = "ValueError"

\* What lines 75-80 do with a tile edge that is not positive: zero makes
\* range() raise, a negative edge makes both ranges empty and the list of
\* windows is returned empty.
TileLoopOnInvalidEdge ==
    (mode = "call" /\ fn = "get_tiles_windows" /\ fnArgs.tile_size < 0) =>
        /\ PyRange(0, rasterH, fnArgs.tile_size) = <<>>
        /\ TileLoop(rasterH, rasterW, fnArgs.tile_size) = <<>>

MainExited == mode = "main" /\ pc = "exited"

\* A fatal run-level error: the raster cannot be found or opened, the
\* polygon source cannot be read, or the output directory cannot be created.
FatalRunError ==
    \/ rasterState # "ok"
    \/ fnArgs.output = "denied"
    \/ fnArgs.shapefile = "unreadable"

\* C14: the process exit code is 0 for every run that completes, even when
\* individual tiles failed, and is non-zero whenever the raster cannot be
\* opened or found, the polygon source cannot be read, or the output
\* directory cannot be created.
C14_ExitCode ==
    MainExited => (ExitCode(fnRet) # 0 <=> FatalRunError)

\* What main does instead: it returns normally on every path, so the exit
\* code is 0 whatever happened.
MainAlwaysExitsZero ==
    MainExited => ExitCode(fnRet) = 0

\* The run of process_orthophoto_simple that main started has returned, on
\* a raster that opens and with every library and I/O call delivering.
SimpleRunQuiet ==
    /\ MainExited
    /\ summary # NoSummary
    /\ rasterState = "ok"
    /\ fnArgs.env.fail = "none"

\* C15: for an all-zero three-channel image the run reports
\* total_objects == 0 and success == true: no pixel with R = G = B = 0 is
\* classified as vegetation, and an empty object list is a normal completion,
\* not an error.
C15_AllZeroImage ==
    (SimpleRunQuiet /\ green = {}) =>
        /\ threshold_classification([height |-> rasterH, width |-> rasterW, green |-> {}]) = {}
        /\ summary.success
        /\ summary.total_objects = 0
        /\ summary.objects = <<>>
        /\ summary.error = None

\* main has processed an all-zero raster of more than one pixel.
C15_Witness ==
    /\ SimpleRunQuiet
    /\ green = {}
    /\ rasterH * rasterW > 1
    /\ summary.success
    /\ summary.total_objects = 0

\* The three indices of a pixel compared with a threshold in thousandths:
\* G / (R + 0.001), G / (B + 0.001), (G - R) / (G + R + 0.001).
GreenRedRatioAtLeast(rgb, t) == rgb[2] * 1000000 >= t * (rgb[1] * 1000 + 1)
GreenBlueRatioAtLeast(rgb, t) == rgb[2] * 1000000 >= t * (rgb[3] * 1000 + 1)
GreenIndexAtLeast(rgb, t) ==
    (rgb[2] - rgb[1]) * 1000000 >= t * ((rgb[2] + rgb[1]) * 1000 + 1)

ThresholdReturned == mode = "call" /\ fn = "threshold_classification" /\ fnRet # NoResult

\* C16: threshold_classification returns a mask of the block's shape whose
\* value at a pixel is 255 if and only if greenRedRatio >= t_gr and
\* greenBlueRatio >= t_gb and greenIndex >= t_gi there, with t_gr and t_gb
\* independently settable, and 0 otherwise; no other value occurs.
C16_ThresholdMask ==
    ThresholdReturned =>
        /\ fnRet.ok
        /\ DOMAIN fnRet.value = RasterPixels(rasterH, rasterW)
        /\ \A p \in RasterPixels(rasterH, rasterW) :
             /\ fnRet.value[p] \in {0, 255}
             /\ fnRet.value[p] = 255 <=>
                  /\ GreenRedRatioAtLeast(fnArgs.rgb_data[p], fnArgs.t_gr)
                  /\ GreenBlueRatioAtLeast(fnArgs.rgb_data[p], fnArgs.t_gb)
                  /\ GreenIndexAtLeast(fnArgs.rgb_data[p], fnArgs.t_gi)

\* What threshold_classification does compute: the same test with the one
\* ratio threshold applied to both ratios.
ThresholdMaskSharedRatio ==
    ThresholdReturned =>
        /\ DOMAIN fnRet.value = RasterPixels(rasterH, rasterW)
        /\ \A p \in RasterPixels(rasterH, rasterW) :
             /\ fnRet.value[p] \in {0, 255}
             /\ fnRet.value[p] = 255 <=>
                  /\ GreenRedRatioAtLeast(fnArgs.rgb_data[p], fnArgs.t_gr)
                  /\ GreenBlueRatioAtLeast(fnArgs.rgb_data[p], fnArgs.t_gr)
                  /\ GreenIndexAtLeast(fnArgs.rgb_data[p], fnArgs.t_gi)

CombinedReturned == mode = "call" /\ fn = "combined_classification" /\ fnRet # NoResult

\* The threshold in force for a name: the supplied one, or the default of
\* the fixed-threshold test.
EffectiveThreshold(name) ==
    IF fnArgs.thresholds.passed /\ name \in DOMAIN fnArgs.thresholds.dict
    THEN fnArgs.thresholds.dict[name]
    ELSE DefaultThresholds[name]

\* The returned mask is that of the fixed-threshold test with the
\* thresholds in force.
CombinedMaskAsFixedTest ==
    /\ fnRet.ok
    /\ DOMAIN fnRet.value = RasterPixels(rasterH, rasterW)
    /\ \A p \in RasterPixels(rasterH, rasterW) :
         fnRet.value[p] =
            IF /\ GreenRedRatioAtLeast(fnArgs.rgb_data[p], EffectiveThreshold("green_red_ratio"))
               /\ GreenBlueRatioAtLeast(fnArgs.rgb_data[p], EffectiveThreshold("green_blue_ratio"))
               /\ GreenIndexAtLeast(fnArgs.rgb_data[p], EffectiveThreshold("green_index"))
            THEN 255 ELSE 0

\* C17: for every pixel block and every threshold mapping, a mapping that
\* names only some of the thresholds and no mapping at all included,
\* combined_classification returns without error the mask of the
\* fixed-threshold test with the supplied values, each unspecified threshold
\* replaced by its default (1.0, 1.0, 0.2).
C17_CombinedDefaults ==
    CombinedReturned => CombinedMaskAsFixedTest

\* The cases in which combined_classification does so: no mapping, or a
\* mapping that names all three thresholds.
CombinedWithAllOrNone ==
    (/\ CombinedReturned
     /\ \/ ~fnArgs.thresholds.passed
        \/ DOMAIN fnArgs.thresholds.dict = DOMAIN DefaultThresholds) =>
        CombinedMaskAsFixedTest

ShapeReturned == mode = "call" /\ fn = "filter_by_shape" /\ fnRet # NoResult

\* Rational bounds of pi: 333/106 < pi < 355/113.  A region whose
\* circularity reaches min_circularity with the lower bound certainly passes;
\* one that misses it with the upper bound certainly fails.
CertainlyRound(region, min_circularity) ==
    4 * 333 * region.area * 1000 >= min_circularity * region.perimeter * region.perimeter * 106
CertainlyNotRound(region, min_circularity) ==
    4 * 355 * region.area * 1000 < min_circularity * region.perimeter * region.perimeter * 113

\* The positions of regions that the filter is to keep.
ShapeKept ==
    {k \in 1..Len(fnArgs.regions) :
        \/ fnArgs.regions[k].perimeter = 0
        \/ CertainlyRound(fnArgs.regions[k], fnArgs.min_circularity)}

\* C18: filter_by_shape never raises; it keeps every region with perimeter
\* 0 whatever min_circularity is, and a region with a positive perimeter
\* exactly when 4*pi*area/perimeter^2 >= min_circularity.
C18_ShapeFilter ==
    ShapeReturned =>
        /\ fnRet.ok
        /\ Len(fnRet.value) = Cardinality(ShapeKept)
        /\ \A k \in 1..Len(fnArgs.regions) :
             LET region == fnArgs.regions[k]
                 kept == \E j \in 1..Len(fnRet.value) : fnRet.value[j] = region
             IN /\ region.perimeter = 0 => kept
                /\ region.perimeter > 0 /\ CertainlyRound(region, fnArgs.min_circularity) => kept
                /\ region.perimeter > 0 /\ CertainlyNotRound(region, fnArgs.min_circularity) => ~kept
                /\ region.perimeter > 0 =>
                     \/ CertainlyRound(region, fnArgs.min_circularity)
                     \/ CertainlyNotRound(region, fnArgs.min_circularity)

\* A call in which a region with perimeter 0 is kept under a min_circularity
\* above 1 while a region with a positive perimeter is dropped.
C18_Witness ==
    /\ ShapeReturned
    /\ fnRet.ok
    /\ fnArgs.min_circularity = 2000
    /\ Len(fnArgs.regions) = 2
    /\ fnArgs.regions[1].perimeter > 0
    /\ fnArgs.regions[2].perimeter = 0
    /\ fnRet.value = <<fnArgs.regions[2]>>

MorphReturned == mode = "call" /\ fn = "morphological_operations" /\ fnRet # NoResult

MorphShape == [height |-> rasterH, width |-> rasterW]

\* The opening and the closing of a mask, as erosions and dilations.
OpenedBy(mask, radius) ==
    binary_dilation(binary_erosion(mask, MorphShape, radius), MorphShape, radius)
ClosedBy(mask, radius) ==
    binary_erosion(binary_dilation(mask, MorphShape, radius), MorphShape, radius)

\* C19: a radius of 0 skips that operation without an error: with
\* opening_size 0 the closing receives the input mask unchanged, with
\* closing_size 0 the result is the opened mask, with both 0 the result is
\* the input; with both positive the opening is applied before the closing.
C19_ZeroRadiusSkips ==
    MorphReturned =>
        LET m == fnArgs.binary_mask
            o == fnArgs.opening_size
            c == fnArgs.closing_size
        IN /\ fnRet.ok
           /\ o = 0 /\ c = 0 => fnRet.value = m
           /\ o = 0 /\ c > 0 => fnRet.value = ClosedBy(m, c)
           /\ o > 0 /\ c = 0 => fnRet.value = OpenedBy(m, o)
           /\ o > 0 /\ c > 0 => fnRet.value = ClosedBy(OpenedBy(m, o), c)

\* A call with opening_size 0 whose closing changes the mask.
C19_Witness ==
    /\ MorphReturned
    /\ fnArgs.opening_size = 0
    /\ fnArgs.closing_size > 0
    /\ fnRet.value # fnArgs.binary_mask

\* A call with both radii positive in which the order of the two operations
\* shows in the result.
MorphOrderShows ==
    /\ MorphReturned
    /\ fnArgs.opening_size > 0
    /\ fnArgs.closing_size > 0
    /\ fnRet.value # OpenedBy(ClosedBy(fnArgs.binary_mask, fnArgs.closing_size),
                              fnArgs.opening_size)

\* Task i is a polygon task that has run and has computed its window.
PolygonWindowComputed(i) ==
    /\ Executed(i)
    /\ tasks[i].window = None
    /\ tasks[i].polygon_geom # None
    /\ TaskWindow(rasterState, tasks[i].polygon_geom, tasks[i].window, taskEnv[i]).ok

\* C20: the window a polygon task computes from the bounds of its polygon
\* is clamped to the raster before it is read: both offsets are at least 0,
\* offset plus size stays within the raster height and width, and height and
\* width are positive, also for a polygon that lies partly outside the raster.
C20_WindowClamped ==
    \A i \in TaskIds :
        PolygonWindowComputed(i) => InsideRaster(WindowOf(i), rasterH, rasterW)

\* What the task reads with: the bounds of the polygon as they are.
WindowIsPolygonBounds ==
    \A i \in TaskIds :
        PolygonWindowComputed(i) =>
            /\ WindowOf(i).col_off = tasks[i].polygon_geom.minx
            /\ WindowOf(i).row_off = tasks[i].polygon_geom.miny
            /\ WindowOf(i).col_off + WindowOf(i).width = tasks[i].polygon_geom.maxx
            /\ WindowOf(i).row_off + WindowOf(i).height = tasks[i].polygon_geom.maxy

\* The objects of task j in raster coordinates.
LocalObjectsGlobal(j) ==
    LET loc == LocalObjects(j)
    IN [k \in 1..Len(loc) |-> to_global(loc[k], WindowOf(j).col_off, WindowOf(j).row_off)]

\* The window of polygon task i shares no pixel with the raster: clamped to
\* the raster it has zero area.
ClampedEmpty(i) ==
    /\ PolygonWindowComputed(i)
    /\ WindowPixels(WindowOf(i)) \cap RasterPixels(rasterH, rasterW) = {}

\* C21: a polygon whose window has zero area after clamping to the raster
\* (a polygon entirely outside the raster) makes its task a failed result,
\* success = false with an error, while the tasks of all other polygons
\* proceed and are counted normally.
C21_ZeroAreaPolygonFails ==
    /\ \A i \in TaskIds :
         ClampedEmpty(i) =>
            /\ results[i] # NoResult
            /\ results[i].success = FALSE
            /\ results[i].error # None
            /\ results[i].count = 0
            /\ results[i].objects = <<>>
    /\ (pc = "returned" /\ \E i \in TaskIds : ClampedEmpty(i)) =>
         /\ summary.success
         /\ summary.total_polygons = Len(tasks)
         /\ summary.total_objects = CountOver(Succeeded)
         /\ \A j \in TaskIds :
              /\ results[j] # NoResult
              /\ summary.results[j] = results[j]
              /\ (~ClampedEmpty(j) /\ ~HitError(j)) =>
                    /\ results[j].success
                    /\ results[j].objects = LocalObjectsGlobal(j)

\* A run has returned in which the task of a polygon outside the raster
\* failed and the task of another polygon delivered an object that is counted.
C21_Witness ==
    /\ pc = "returned"
    /\ \E i, j \in TaskIds :
         /\ ClampedEmpty(i)
         /\ ~results[i].success
         /\ ~ClampedEmpty(j)
         /\ results[j].success
         /\ results[j].count >= 1
         /\ summary.total_objects = results[j].count

AdaptiveReturned ==
    mode = "call" /\ fn = "adaptive_threshold_classification" /\ fnRet # NoResult

\* The two ratios of the pixel at p, in thousandths.
RatioGR(p) == (fnArgs.rgb_data[p][2] * 1000000) \div (fnArgs.rgb_data[p][1] * 1000 + 1)
RatioGB(p) == (fnArgs.rgb_data[p][2] * 1000000) \div (fnArgs.rgb_data[p][3] * 1000 + 1)

\* The pixels of the square window centred at p, as offsets from p; a pixel
\* beyond the border stands for its mirror image.
WindowOffsets == (0 - (fnArgs.local_window_size \div 2))..(fnArgs.local_window_size \div 2)

RECURSIVE LocalSum(_, _, _)
\* The sum of ratio over the offsets ds from p.
LocalSum(ratio(_), p, ds) ==
    IF ds = {} THEN 0
    ELSE LET d == CHOOSE x \in ds : TRUE
         IN ratio(<<Reflect(p[1] + d[1], rasterH), Reflect(p[2] + d[2], rasterW)>>)
            + LocalSum(ratio, p, ds \ {d})

\* ratio at p exceeds 0.8 times its local mean.
ExceedsLocalMean(ratio(_), p) ==
    ratio(p) * 10 * Cardinality(WindowOffsets \X WindowOffsets)
        > 8 * LocalSum(ratio, p, WindowOffsets \X WindowOffsets)

\* All ratios in the window around p are zero.
AllBlackAround(p) ==
    \A d \in WindowOffsets \X WindowOffsets :
        LET q == <<Reflect(p[1] + d[1], rasterH), Reflect(p[2] + d[2], rasterW)>>
        IN RatioGR(q) = 0 /\ RatioGB(q) = 0

\* C22: under the adaptive policy a pixel is marked vegetation (255) if and
\* only if its green/red ratio and its green/blue ratio both exceed 0.8 times
\* their local means over the square window centred at the pixel; a pixel
\* whose ratios and local means are all zero is not marked.
C22_AdaptiveExceeds ==
    AdaptiveReturned =>
        /\ fnRet.ok
        /\ \A p \in RasterPixels(rasterH, rasterW) :
             /\ fnRet.value[p] = 255 <=>
                  (ExceedsLocalMean(RatioGR, p) /\ ExceedsLocalMean(RatioGB, p))
             /\ AllBlackAround(p) => fnRet.value[p] # 255

\* What the code marks: the pixels whose ratios reach 0.8 times their local
\* means, equality included.
AdaptiveMarksAtLeast ==
    AdaptiveReturned =>
        \A p \in RasterPixels(rasterH, rasterW) :
            /\ fnRet.value[p] \in {0, 255}
            /\ fnRet.value[p] = 0 =>
                 (~ExceedsLocalMean(RatioGR, p) \/ ~ExceedsLocalMean(RatioGB, p))
            /\ AllBlackAround(p) => fnRet.value[p] = 255

IndicesReturned == mode = "call" /\ fn = "calculate_color_indices" /\ fnRet # NoResult

\* v is num / den in thousandths, rounded down; den is not zero.
QuotientMilli(v, num, den) ==
    /\ den > 0
    /\ v * den <= num * 1000
    /\ num * 1000 < (v + 1) * den

\* The grids returned for the block: exactly three, each of the shape of the
\* block, each entry the index of that pixel with 0.001 in the denominator
\* (numerator and denominator below are in thousandths).
IndicesOfBlock ==
    /\ fnRet.ok
    /\ DOMAIN fnRet.value = {"green_red_ratio", "green_blue_ratio", "green_index"}
    /\ \A name \in DOMAIN fnRet.value : DOMAIN fnRet.value[name] = RasterPixels(rasterH, rasterW)
    /\ \A p \in RasterPixels(rasterH, rasterW) :
         LET R == fnArgs.rgb_data[p][1]
             G == fnArgs.rgb_data[p][2]
             B == fnArgs.rgb_data[p][3]
         IN /\ QuotientMilli(fnRet.value.green_red_ratio[p], G * 1000, R * 1000 + 1)
            /\ QuotientMilli(fnRet.value.green_blue_ratio[p], G * 1000, B * 1000 + 1)
            /\ QuotientMilli(fnRet.value.green_index[p], (G - R) * 1000, (G + R) * 1000 + 1)

\* C23: for every block of shape (H, W, C) with C >= 3, calculate_color_indices
\* returns exactly the grids green_red_ratio, green_blue_ratio and
\* green_index, each of shape (H, W) and computed from the block alone; every
\* entry is defined, also where R = 0, B = 0 or G + R = 0, and the block is
\* left as it was.
C23_ColorIndices ==
    /\ [](IndicesReturned => IndicesOfBlock)
    /\ [][fn = "calculate_color_indices" => fnArgs' = fnArgs]_vars

\* A call has returned for a four-channel block that holds a black pixel
\* and a pixel without red.
C23_Witness ==
    /\ IndicesReturned
    /\ \E p, q \in RasterPixels(rasterH, rasterW) :
         /\ Len(fnArgs.rgb_data[p]) = 4
         /\ fnArgs.rgb_data[p][1] = 0 /\ fnArgs.rgb_data[p][2] = 0
         /\ fnArgs.rgb_data[q][1] = 0 /\ fnArgs.rgb_data[q][2] > 0
         /\ fnRet.value.green_index[p] = 0
         /\ fnRet.value.green_red_ratio[q] = fnArgs.rgb_data[q][2] * 1000000

\* main has run the branch for a command line without a polygon file.
MainRanWithoutPolygons ==
    /\ MainExited
    /\ fnArgs.shapefile = "none"
    /\ fnArgs.env # NoResult

\* C24: when the command line names no polygon file, the run partitions the
\* raster into tiles and processes each tile as its own task on the worker
\* pool; the raster is never read as one whole in-memory array.
C24_FullRunIsTiled ==
    MainRanWithoutPolygons =>
        /\ tasks # <<>>
        /\ IsTiling([k \in 1..Len(tasks) |-> tasks[k].window], rasterH, rasterW)
        /\ \A k \in 1..Len(fnArgs.reads) : fnArgs.reads[k] # None

\* What main does instead: no task is created and the raster is read once,
\* as a whole.
MainReadsWholeRaster ==
    MainRanWithoutPolygons =>
        /\ tasks = <<>>
        /\ fnArgs.reads = <<None>>

\* main has run the branch for a command line that names an existing
\* polygon file.
MainRanWithPolygons ==
    /\ MainExited
    /\ fnArgs.polygons # NoResult

\* C25: when the command line names an existing polygon file, main starts a
\* polygon run that dispatches one task per non-null polygon, and every such
\* task uses the minArea, maxArea and worker count of the run configuration.
C25_PolygonRunFromMain ==
    MainRanWithPolygons =>
        /\ fnArgs.polygons.ok
        /\ {"min_area", "max_area", "n_workers"} \subseteq ParallelKeywords
        /\ (rasterState = "ok" /\ fnArgs.shapefile = "ok") =>
              Len(tasks) = Cardinality({k \in 1..Len(gdf) : gdf[k] # None})

\* What main does instead: the call of process_orthophoto_in_polygons raises
\* TypeError before its body runs, the except clause prints it, and no task
\* is ever created.
MainPolygonCallRaises ==
    MainRanWithPolygons =>
        /\ ~fnArgs.polygons.ok
        /\ fnArgs.polygons.exc = "TypeError"
        /\ tasks = <<>>
        /\ summary = NoSummary

RECURSIVE CountFieldOver(_)
\* The sum of the count fields of the results of the tasks of S.
CountFieldOver(S) ==
    IF S = {} THEN 0
    ELSE LET k == CHOOSE x \in S : TRUE
         IN results[k].count + CountFieldOver(S \ {k})

\* The tasks that have returned a result.
Returned == {k \in TaskIds : results[k] # NoResult}

\* The result r has the five entries of lines 153-159 and 183-189 and they
\* agree with each other.
WellFormed(r) ==
    /\ DOMAIN r = {"polygon", "count", "objects", "success", "error"}
    /\ r.success \in BOOLEAN
    /\ r.count = Len(r.objects)
    /\ r.success => r.error = None
    /\ ~r.success =>
          /\ r.count = 0
          /\ r.objects = <<>>
          /\ r.error # None
          /\ DOMAIN r.error = {"text"}
          /\ r.error.text # <<>>

\* C26: every result returned by process_orthophoto_chunk is well formed:
\* count is the length of objects; success implies error is None; failure
\* implies count 0, no objects and an error message.  So the sum of count over
\* all results is the sum over the successful ones.
C26_ResultWellFormed ==
    /\ \A i \in Returned : WellFormed(results[i])
    /\ CountFieldOver(Returned) = CountFieldOver(Succeeded)
    /\ (pc = "returned" /\ summary.success) =>
          summary.total_objects = CountFieldOver(Returned)

\* A run has returned with a failed result next to a successful one that
\* holds objects.
C26_Witness ==
    /\ pc = "returned"
    /\ summary.success
    /\ \E i, j \in Returned :
         /\ ~results[i].success
         /\ results[i].error # None
         /\ results[j].success
         /\ Len(results[j].objects) >= 1
         /\ summary.total_objects = CountFieldOver(Returned)

\* The bounding box (min_row, min_col, max_row, max_col) lies in the extent
\* of the raster.
BoxInRaster(bbox) ==
    /\ 0 <= bbox[1] /\ bbox[1] <= bbox[3] /\ bbox[3] <= rasterH
    /\ 0 <= bbox[2] /\ bbox[2] <= bbox[4] /\ bbox[4] <= rasterW

\* C27: every object in every successful result has a global bounding box
\* inside the raster extent, 0 <= minRow <= maxRow <= rasterHeight and
\* 0 <= minCol <= maxCol <= rasterWidth, for tile windows and for windows
\* derived from polygons, polygons that extend beyond the raster edge
\* included.
C27_BoxInsideRaster ==
    \A i \in Succeeded :
        \A k \in 1..Len(results[i].objects) : BoxInRaster(results[i].objects[k].bbox)

\* The boxes of the tasks whose window lies inside the raster are inside
\* the raster.
BoxInsideRasterForInnerWindows ==
    \A i \in Succeeded :
        InsideRaster(WindowOf(i), rasterH, rasterW) =>
            \A k \in 1..Len(results[i].objects) : BoxInRaster(results[i].objects[k].bbox)

\* The objects process_orthophoto_simple extracts from the raster of the run
\* (main.py lines 124-139).
SimpleExtracted ==
    extract_vegetation_objects(
        apply_gaussian_filter([height |-> rasterH, width |-> rasterW, green |-> green],
                              fnArgs.env.spread),
        min_area, max_area, CONNECTIVITY)

\* C28: whenever loading, preprocessing and object extraction raise no
\* error and the output directory is writable, process_orthophoto_simple
\* returns success = true with total_objects equal to the number of
\* extracted objects, for any number of extracted objects (zero or more).
C28_SimpleRunSucceeds ==
    SimpleRunQuiet =>
        /\ summary.success
        /\ summary.total_objects = Len(SimpleExtracted)

\* What the code does: the run succeeds exactly when nothing was extracted,
\* and reports no object either way.
SimpleRunSucceedsIffEmpty ==
    SimpleRunQuiet =>
        /\ summary.success <=> SimpleExtracted = <<>>
        /\ summary.total_objects = 0

====
